---- MODULE Spec2Model ----
(***************************************************************************)
(* Random-walk simulation: the Simulation engine (simulation.py), the      *)
(* walkers (walkers.py), the rectangles of terrains.py, the Statistics     *)
(* accumulator (statistics.py) and the driver loop of main.py.             *)
(*                                                                         *)
(* Coordinates are integers counted in half units (Unit = 2 is one step of *)
(* length 1), so that the midpoint taken by the sand effect is exact.      *)
(* sin and cos of a multiple of pi/2 are taken as exactly 0, 1 or -1.      *)
(* Distances are kept squared: d <= 10 is d*d <= (10*Unit)^2.  A root is   *)
(* taken where it is a whole number; a quotient a / b is the pair <<a, b>>.*)
(***************************************************************************)
EXTENDS Integers, Sequences, FiniteSets, TLC

VARIABLES
    num_simulations,     \* main.py args.num_simulations
    num_moves,           \* Simulation.__num_moves
    walker_names,        \* key order of Simulation.__walkers
    walkers_interaction, \* Simulation.__walkers_interaction
    obstacles,           \* Simulation.__obstacles
    enchanted_gates,     \* Simulation.__enchanted_gates
    waters,              \* Simulation.__waters
    sands,               \* Simulation.__sands
    grasses,             \* Simulation.__grasses
    walkers,             \* Simulation.__walkers: name -> Walker object
    escape_times,        \* Simulation.__escape_times
    crosses_y,           \* Simulation.__crosses_y
    total_dict,          \* Simulation.__total_dict
    stats,               \* Statistics.__total_dict
    run,                 \* main: loop variable i over the simulations
    pc,                  \* position of the program
    i,                   \* run_simulation: loop variable i over the moves
    cur,                 \* run_simulation: index of walker_name in the loop
    collision_attempts,  \* run_simulation: collision_attempts
    result               \* value returned by run_simulation

cfgVars == <<num_simulations, num_moves, walker_names, walkers_interaction,
             obstacles, enchanted_gates, waters, sands, grasses>>
simVars == <<walkers, escape_times, crosses_y, total_dict>>
runVars == <<i, cur, collision_attempts, result>>
vars == <<cfgVars, simVars, runVars, stats, run, pc>>

----------------------------------------------------------------------------
(* Bounds of the model: step budgets and numbers of simulations.           *)

SoloMoves == 4
DriverMoves == 1
DriverRuns == 2
PairMoves == 2
MemoryMoves == 2
StatsMoves == 2
NearestMoves == 1
BiasMoves == 3
RevertMoves == 2
FreeMoves == 2
ReuseMoves == 2
ReuseRuns == 2
StatsRuns == 2

----------------------------------------------------------------------------
(* Values.                                                                 *)

Unit == 2
None == <<>>
Some(v) == <<v>>
Origin == <<0, 0>>
escape_radius == 10
max_collision_attempts == 1000

Abs(a) == IF a < 0 THEN -a ELSE a
Max(a, b) == IF a >= b THEN a ELSE b
Min(a, b) == IF a <= b THEN a ELSE b
X(p) == p[1]
Y(p) == p[2]
Dist2(p, q) == (X(p) - X(q)) * (X(p) - X(q)) + (Y(p) - Y(q)) * (Y(p) - Y(q))

\* terrains.py: a rectangle with bottom-left corner (x, y), width and height
Rect(x, y, width, height) == [x |-> x, y |-> y, width |-> width, height |-> height]
Gate(entrance, exit, width, height) ==
    [x |-> X(entrance), y |-> Y(entrance), width |-> width, height |-> height,
     exit |-> exit]

\* Polygon(vertices) of get_boundary: the four corners of the filled rectangle
Corners(r) == {<<r.x, r.y>>, <<r.x + r.width, r.y>>,
               <<r.x + r.width, r.y + r.height>>, <<r.x, r.y + r.height>>}

\* Point(p).intersects(polygon): p is inside the rectangle or on its border
PointIntersects(p, r) ==
    /\ r.x <= X(p) /\ X(p) <= r.x + r.width
    /\ r.y <= Y(p) /\ Y(p) <= r.y + r.height

Cross(p, q, c) == (X(q) - X(p)) * (Y(c) - Y(p)) - (Y(q) - Y(p)) * (X(c) - X(p))

\* LineString([p, q]).intersects(polygon): the closed segment p-q meets the
\* filled rectangle (separating axes: x, y and the normal of the segment)
SegmentIntersects(p, q, r) ==
    /\ Max(X(p), X(q)) >= r.x /\ Min(X(p), X(q)) <= r.x + r.width
    /\ Max(Y(p), Y(q)) >= r.y /\ Min(Y(p), Y(q)) <= r.y + r.height
    /\ ~ (\A c \in Corners(r) : Cross(p, q, c) > 0)
    /\ ~ (\A c \in Corners(r) : Cross(p, q, c) < 0)

----------------------------------------------------------------------------
(* walkers.py.  A walker object is a record; moved_from is a history field *)
(* holding the position held immediately before the latest position change *)
(* (None before the first one of a run).                                   *)

Walker == [loc |-> Origin, prev |-> Origin, escaped |-> FALSE, moved_from |-> None]

get_location(wk) == wk.loc
get_prev_location(wk) == wk.prev

move_back(wk) == [wk EXCEPT !.loc = wk.prev]

reset_walker(wk) == [wk EXCEPT !.loc = Origin, !.escaped = FALSE, !.moved_from = None]

set_position(wk, position) ==
    [wk EXCEPT !.loc = position, !.moved_from = Some(wk.loc)]

\* faulty variant: the flag follows the distance and is not sticky
escape_check_value_not_sticky(wk) ==
    Dist2(wk.loc, Origin) > (escape_radius * Unit) * (escape_radius * Unit)

\* Walker.escape_check: the value returned, and the walker afterwards
escape_check_value(wk) ==
    ~ (Dist2(wk.loc, Origin) <= (escape_radius * Unit) * (escape_radius * Unit)
       /\ ~ wk.escaped)
escape_check_walker(wk) == [wk EXCEPT !.escaped = escape_check_value(wk)]

\* StraightWalker.move: the four directions of random.choice
directions == {<<0, -1>>, <<0, 1>>, <<1, 0>>, <<-1, 0>>}
StraightWalker_move(wk, direction) ==
    [wk EXCEPT !.prev = wk.loc,
               !.loc = <<X(wk.loc) + Unit * X(direction), Y(wk.loc) + Unit * Y(direction)>>,
               !.moved_from = Some(wk.loc)]

\* UnitWalker and RandomDistanceWalker are both subclasses of Walker; they
\* add no attribute, the field class tells their objects apart
UnitWalker ==
    [loc |-> Origin, prev |-> Origin, escaped |-> FALSE, moved_from |-> None,
     class |-> "UnitWalker"]
RandomDistanceWalker ==
    [loc |-> Origin, prev |-> Origin, escaped |-> FALSE, moved_from |-> None,
     class |-> "RandomDistanceWalker"]

\* random.uniform(0, 2 * pi) sampled at the multiples of pi/2: the pairs
\* (cos(direction), sin(direction))
angles == {<<1, 0>>, <<0, 1>>, <<-1, 0>>, <<0, -1>>}
\* random.uniform(0.5, 1.5) sampled at 0.5, 1 and 1.5, in half units
distances == {1, 2, 3}

UnitWalker_move(wk, direction) ==
    [wk EXCEPT !.prev = wk.loc,
               !.loc = <<X(wk.loc) + Unit * X(direction), Y(wk.loc) + Unit * Y(direction)>>,
               !.moved_from = Some(wk.loc)]

\* choice is the pair of the direction and the distance drawn
RandomDistanceWalker_move(wk, choice) ==
    LET direction == choice[1]
        distance == choice[2]
    IN  [wk EXCEPT !.prev = wk.loc,
                   !.loc = <<X(wk.loc) + distance * X(direction),
                             Y(wk.loc) + distance * Y(direction)>>,
                   !.moved_from = Some(wk.loc)]

\* the whole number r with r * r = n: distances and unit vectors are taken
\* where they are whole numbers of half units
Root(n) == CHOOSE r \in 0..n : r * r = n

\* DirectionalBiasWalker: a walker object with the normalized weights of
\* down, up, right, left and towards the origin
RECURSIVE sum(_)
sum(weights) == IF weights = <<>> THEN 0 ELSE Head(weights) + sum(Tail(weights))

\* every weight divided by the total, kept as the fraction <<weight, total>>
normalize_weights(weights) ==
    [k \in 1..Len(weights) |-> <<weights[k], sum(weights)>>]

DirectionalBiasWalker(bias_probabilities) ==
    [loc |-> Origin, prev |-> Origin, escaped |-> FALSE, moved_from |-> None,
     bias_probabilities |-> normalize_weights(bias_probabilities)]

\* the unit vector from the walker to the origin, None at the origin
angle_to_origin_distance_1(wk) ==
    LET x == - X(wk.loc)
        y == - Y(wk.loc)
        length == Root(x * x + y * y)
    IN  IF wk.loc = Origin THEN None
        ELSE Some(<<(Unit * x) \div length, (Unit * y) \div length>>)

\* the list of steps of DirectionalBiasWalker.move, in half units: the four
\* axis steps and, away from the origin, the step towards it.  The list is
\* given by its indices and by the entry at an index, so that the step
\* towards the origin is worked out only where it is taken
relevant_directions(wk) == 1..(IF wk.loc = Origin THEN 4 ELSE 5)
relevant_direction(wk, k) ==
    IF k <= 4 THEN <<<<0, -Unit>>, <<0, Unit>>, <<Unit, 0>>, <<-Unit, 0>>>>[k]
    ELSE angle_to_origin_distance_1(wk)[1]

\* random.choices(relevant_directions, weights[:len]): the indices that can
\* be drawn are those of the positive weights among the leading ones
\* faulty variant: every direction of the list can be drawn
bias_choices_unweighted(wk) == relevant_directions(wk)

bias_choices(wk) ==
    {k \in relevant_directions(wk) : wk.bias_probabilities[k][1] > 0}

DirectionalBiasWalker_move(wk, k) ==
    LET chosen_direction == relevant_direction(wk, k)
    IN  [wk EXCEPT !.prev = wk.loc,
                   !.loc = <<X(wk.loc) + X(chosen_direction),
                             Y(wk.loc) + Y(chosen_direction)>>,
                   !.moved_from = Some(wk.loc)]

\* MemoryWalker: a walker object with the list of the positions it remembers
memory_size == 1000
MemoryWalker ==
    [loc |-> Origin, prev |-> Origin, escaped |-> FALSE, moved_from |-> None,
     memory |-> <<>>]

in_memory(wk, position) == \E k \in 1..Len(wk.memory) : wk.memory[k] = position

\* faulty variant: the memory is not consulted
possible_moves_unfiltered(wk) == directions

\* the directions that lead to a position that is not remembered
possible_moves(wk) ==
    {d \in directions :
        ~ in_memory(wk, <<X(wk.loc) + Unit * X(d), Y(wk.loc) + Unit * Y(d)>>)}

\* a step to a position that is not remembered, which is appended to the
\* memory; any of the four steps, and nothing appended, when all are remembered
MemoryWalker_move(wk, direction) ==
    LET target == <<X(wk.loc) + Unit * X(direction), Y(wk.loc) + Unit * Y(direction)>>
    IN  [wk EXCEPT !.prev = wk.loc,
                   !.loc = target,
                   !.moved_from = Some(wk.loc),
                   !.memory = IF possible_moves(wk) /= {} THEN Append(@, target) ELSE @]

update_memory(wk) ==
    LET appended == Append(wk.memory, wk.loc)
    IN  [wk EXCEPT !.memory = IF Len(appended) > memory_size THEN Tail(appended)
                              ELSE appended]

\* statistics.py: the reductions over the accumulated runs.  stat maps a
\* walker's name to its runs, a run to its table of step records.  A
\* quotient a / b is kept as the fraction <<a, b>>.

\* step_data[key]; the distance from the origin is the root of the square
\* that the record keeps
step_value(step_data, key) ==
    IF key = "distance_from_origin" THEN Root(step_data.distance_from_origin_sq)
    ELSE step_data[key]

\* the value added up at index k of the array of counts, over the runs in S
RECURSIVE counts(_, _, _, _)
counts(simulations, S, k, key) ==
    IF S = {} THEN 0
    ELSE LET r == CHOOSE r \in S : TRUE
         IN  (IF k \in DOMAIN simulations[r]
              THEN step_value(simulations[r][k], key) ELSE 0)
             + counts(simulations, S \ {r}, k, key)

\* next(iter(simulations.values())): the run that was loaded first
first_simulation(simulations) ==
    simulations[CHOOSE r \in DOMAIN simulations : \A q \in DOMAIN simulations : r <= q]

\* faulty variant: the sums are divided by the number of simulations run
average_walker_distance_over_run_indices(stat, distance_key) ==
    [walker \in DOMAIN stat |->
        LET simulations == stat[walker]
            length == Cardinality(DOMAIN first_simulation(simulations))
            total_simulations ==
                CHOOSE r \in DOMAIN simulations : \A q \in DOMAIN simulations : r >= q
        IN  [step \in {ToString(k) : k \in 1..length} |->
                LET k == CHOOSE k \in 1..length : ToString(k) = step
                IN  <<counts(simulations, DOMAIN simulations, k, distance_key),
                      total_simulations>>]]

average_walker_distance(stat, distance_key) ==
    [walker \in DOMAIN stat |->
        LET simulations == stat[walker]
            length == Cardinality(DOMAIN first_simulation(simulations))
            total_simulations == Cardinality(DOMAIN simulations)
        IN  [step \in {ToString(k) : k \in 1..length} |->
                LET k == CHOOSE k \in 1..length : ToString(k) = step
                IN  <<counts(simulations, DOMAIN simulations, k, distance_key),
                      total_simulations>>]]

average_walker_distance_origin(stat) == average_walker_distance(stat, "distance_from_origin")
\* faulty variant: the distance from the y-axis is averaged
average_walker_distance_x_from_y_axis(stat) ==
    average_walker_distance(stat, "distance_from_y")

average_walker_distance_x(stat) == average_walker_distance(stat, "distance_from_x")
average_walker_distance_y(stat) == average_walker_distance(stat, "distance_from_y")
avg_cross_y_axis(stat) == average_walker_distance(stat, "y_crosses")

\* the escape times of the steps of one run that are not None, in step order
RECURSIVE escape_times_of(_, _)
escape_times_of(simulation, k) ==
    IF k > Cardinality(DOMAIN simulation) THEN <<>>
    ELSE (IF simulation[k].escape_time /= None
          THEN <<simulation[k].escape_time[1]>> ELSE <<>>)
         \o escape_times_of(simulation, k + 1)

\* the sum of a list of fractions, as a fraction
RECURSIVE sum_of_fractions(_)
sum_of_fractions(list) ==
    IF list = <<>> THEN <<0, 1>>
    ELSE LET rest == sum_of_fractions(Tail(list))
         IN  <<Head(list)[1] * rest[2] + rest[1] * Head(list)[2],
               Head(list)[2] * rest[2]>>

\* the per-run averages of the runs that have an escape time, the runs taken
\* in the order of their indices from n on
RECURSIVE successful_escapes(_, _, _)
successful_escapes(simulations, n, last) ==
    IF n > last THEN <<>>
    ELSE (IF n \in DOMAIN simulations /\ escape_times_of(simulations[n], 1) /= <<>>
          THEN <<<<sum(escape_times_of(simulations[n], 1)),
                   Len(escape_times_of(simulations[n], 1))>>>>
          ELSE <<>>)
         \o successful_escapes(simulations, n + 1, last)

\* Statistics.average_escape_time: <<average, unsuccessful_count>> per walker,
\* the average 0 (the fraction <<0, 1>>) when no run has an escape time
average_escape_time(stat) ==
    [walker_type \in DOMAIN stat |->
        LET simulations == stat[walker_type]
            last == CHOOSE r \in DOMAIN simulations : \A q \in DOMAIN simulations : r >= q
            successful == successful_escapes(simulations, 1, last)
            total == sum_of_fractions(successful)
            unsuccessful_count ==
                Cardinality({r \in DOMAIN simulations :
                                escape_times_of(simulations[r], 1) = <<>>})
        IN  <<IF successful /= <<>> THEN <<total[1], total[2] * Len(successful)>>
              ELSE <<0, 1>>,
              unsuccessful_count>>]

\* faulty variant: a MemoryWalker is reset as a plain walker is
MemoryWalker_reset_walker_inherited(wk) == reset_walker(wk)

MemoryWalker_reset_walker(wk) == [reset_walker(wk) EXCEPT !.memory = <<>>]

\* isinstance(walker, ...): the class of a walker object shows in its fields
is_MemoryWalker(wk) == "memory" \in DOMAIN wk
is_DirectionalBiasWalker(wk) == "bias_probabilities" \in DOMAIN wk
is_UnitWalker(wk) == "class" \in DOMAIN wk /\ wk.class = "UnitWalker"
is_RandomDistanceWalker(wk) ==
    "class" \in DOMAIN wk /\ wk.class = "RandomDistanceWalker"

\* walker.move() of the walker's class; choice is the value drawn by random
move(wk, choice) ==
    IF is_MemoryWalker(wk) THEN MemoryWalker_move(wk, choice)
    ELSE IF is_DirectionalBiasWalker(wk) THEN DirectionalBiasWalker_move(wk, choice)
    ELSE IF is_UnitWalker(wk) THEN UnitWalker_move(wk, choice)
    ELSE IF is_RandomDistanceWalker(wk) THEN RandomDistanceWalker_move(wk, choice)
    ELSE StraightWalker_move(wk, choice)

\* the values random can draw in walker.move()
choices(wk) ==
    IF is_MemoryWalker(wk)
    THEN (IF possible_moves(wk) /= {} THEN possible_moves(wk) ELSE directions)
    ELSE IF is_DirectionalBiasWalker(wk) THEN bias_choices(wk)
    ELSE IF is_UnitWalker(wk) THEN angles
    ELSE IF is_RandomDistanceWalker(wk) THEN angles \X distances
    ELSE directions

\* walker.move() raises: random.choices raises ValueError when the total of
\* the weights it is given is not greater than zero
move_raises(wk) == is_DirectionalBiasWalker(wk) /\ bias_choices(wk) = {}

\* "if isinstance(walker, MemoryWalker): walker.update_memory()"
remember(wk) == IF is_MemoryWalker(wk) THEN update_memory(wk) ELSE wk

----------------------------------------------------------------------------
(* simulation.py: the operations on one walker.  ws is the dictionary of   *)
(* walker objects, name the key of the walker that is moved.               *)

\* faulty variant: the last of the equally near walkers is taken
locate_nearest_walker_last(ws, names, name) ==
    LET others == {k \in 1..Len(names) : names[k] /= name}
        d(k) == Dist2(ws[names[k]].loc, ws[name].loc)
    IN  IF others = {} THEN None
        ELSE Some(names[CHOOSE k \in others :
                     \A m \in others : d(k) < d(m) \/ (d(k) = d(m) /\ k >= m)])

\* the other walker at minimum distance, the first in insertion order among
\* equally near ones ("distance < min_distance"); None when there is none
\* (the code raises ValueError there)
locate_nearest_walker(ws, names, name) ==
    LET others == {k \in 1..Len(names) : names[k] /= name}
        d(k) == Dist2(ws[names[k]].loc, ws[name].loc)
    IN  IF others = {} THEN None
        ELSE Some(names[CHOOSE k \in others :
                     \A m \in others : d(k) < d(m) \/ (d(k) = d(m) /\ k <= m)])

\* atan2 of the vector to the nearest walker, rounded to a multiple of pi/2
\* by round(angle / (pi/2)): ties go to the even multiple (0, 2, 2, 4)
snapped_direction(from, to) ==
    LET dx == X(to) - X(from)
        dy == Y(to) - Y(from)
    IN  IF Abs(dx) > Abs(dy) THEN (IF dx > 0 THEN <<1, 0>> ELSE <<-1, 0>>)
        ELSE IF Abs(dy) > Abs(dx) THEN (IF dy > 0 THEN <<0, 1>> ELSE <<0, -1>>)
        ELSE IF dx < 0 THEN <<-1, 0>>
        ELSE <<1, 0>>

\* "if not isinstance(walker, UnitWalker) or
\*      isinstance(walker, RandomDistanceWalker)": the bearing is rounded
snaps(wk) == ~ is_UnitWalker(wk) \/ is_RandomDistanceWalker(wk)

\* distance * (cos(direction_vector), sin(direction_vector)): the bearing to
\* the nearest walker is atan2(dy, dx), which is 0 for the zero vector
bearing_step(wk, from, to, distance) ==
    LET dx == X(to) - X(from)
        dy == Y(to) - Y(from)
    IN  IF snaps(wk)
        THEN <<distance * X(snapped_direction(from, to)),
               distance * Y(snapped_direction(from, to))>>
        ELSE IF dx = 0 /\ dy = 0 THEN <<distance, 0>>
        ELSE <<(distance * dx) \div Root(dx * dx + dy * dy),
               (distance * dy) \div Root(dx * dx + dy * dy)>>

\* the draws of one choose_move: prob <= 0.2 or not and the distance of a
\* RandomDistanceWalker (both drawn when an interaction is set), and the
\* walker's own draw
Draws(wk, interaction) ==
    [biased : IF interaction = None THEN {FALSE} ELSE BOOLEAN,
     distance : IF interaction /= None /\ is_RandomDistanceWalker(wk)
                THEN distances ELSE {Unit},
     direction : IF move_raises(wk) THEN {None} ELSE choices(wk)]

\* choose_move lets the ValueError of locate_nearest_walker and that of
\* walker.move() pass
choose_move_raises(ws, names, interaction, name, draw) ==
    IF interaction = None THEN move_raises(ws[name])
    ELSE \/ locate_nearest_walker(ws, names, name) = None
         \/ ~ draw.biased /\ move_raises(ws[name])

choose_move(ws, names, interaction, name, draw) ==
    LET walker == ws[name]
    IN  IF interaction = None THEN move(walker, draw.direction)
        ELSE IF draw.biased
        THEN LET nearest_walker == ws[locate_nearest_walker(ws, names, name)[1]]
                 step == bearing_step(walker, walker.loc, nearest_walker.loc,
                                      draw.distance)
                 sign == IF interaction = Some("attract") THEN 1 ELSE -1
             IN  remember(set_position(walker,
                     <<X(walker.loc) + sign * X(step),
                       Y(walker.loc) + sign * Y(step)>>))
        ELSE move(walker, draw.direction)

\* water, then sand, then grass; "False" when the walker is on no terrain
terrain_check(walker, waterList, sandList, grassList) ==
    IF \E k \in 1..Len(waterList) : PointIntersects(walker.loc, waterList[k]) THEN "water"
    ELSE IF \E k \in 1..Len(sandList) : PointIntersects(walker.loc, sandList[k]) THEN "sand"
    ELSE IF \E k \in 1..Len(grassList) : PointIntersects(walker.loc, grassList[k]) THEN "grass"
    ELSE "False"

\* the effect of the terrain on the walker's position
terrain_effect(walker, terrain) ==
    IF terrain = "water" THEN set_position(walker, Origin)
    ELSE IF terrain = "sand"
    THEN set_position(walker, <<(X(walker.prev) + X(walker.loc)) \div 2,
                                (Y(walker.prev) + Y(walker.loc)) \div 2>>)
    ELSE IF terrain = "grass"
    THEN set_position(walker,
             <<X(walker.loc) + 2 * (X(walker.loc) - X(walker.prev)),
               Y(walker.loc) + 2 * (Y(walker.loc) - Y(walker.prev))>>)
    ELSE walker

\* the effect, and a MemoryWalker then remembers the position it is at
handle_terrain(walker, terrain) == remember(terrain_effect(walker, terrain))

\* faulty variant: only the position before the move is tested
check_collision_at_start(walker, obstacleList) ==
    \E k \in 1..Len(obstacleList) : PointIntersects(walker.prev, obstacleList[k])

check_collision(walker, obstacleList) ==
    \E k \in 1..Len(obstacleList) :
        SegmentIntersects(walker.prev, walker.loc, obstacleList[k])

\* the loop over the gates from gate k on: the trajectory is taken anew for
\* every gate and the loop does not stop at a match
RECURSIVE gate_loop(_, _, _)
gate_loop(walker, gateList, k) ==
    IF k > Len(gateList) THEN walker
    ELSE gate_loop(IF SegmentIntersects(walker.prev, walker.loc, gateList[k])
                   THEN remember(set_position(walker, gateList[k].exit))
                   ELSE walker,
                   gateList, k + 1)

gate_check(walker, gateList) == gate_loop(walker, gateList, 1)

Sign(a) == IF a > 0 THEN 1 ELSE IF a < 0 THEN -1 ELSE 0

\* faulty variant: any change of sign counts, landing on x = 0 included
cross_y_check_sign(count, walker) ==
    IF \/ Sign(X(walker.loc)) /= Sign(X(walker.prev))
       \/ (X(walker.prev) = 0 /\ X(walker.loc) /= 0)
    THEN count + 1
    ELSE count

\* faulty variant: a walker on the axis counts as touching it
cross_y_check_touch(count, walker) ==
    IF X(walker.loc) * X(walker.prev) <= 0 THEN count + 1 ELSE count

\* the new value of __crosses_y[walker_name]
cross_y_check(count, walker) ==
    IF \/ X(walker.loc) * X(walker.prev) < 0
       \/ (X(walker.prev) = 0 /\ X(walker.loc) /= 0)
    THEN count + 1
    ELSE count

\* the new value of __escape_times[walker_name]
escape_check(time, walker, step) ==
    IF ~ escape_check_value(walker) THEN Some(step) ELSE time

\* faulty variant: the escape time is written until the escape, none after
step_record_inverted(walker, time, count) ==
    [locations |-> walker.loc,
     escape_time |-> IF escape_check_value(walker) THEN None ELSE time,
     y_crosses |-> Max(0, count),
     distance_from_origin_sq |-> Dist2(walker.loc, Origin),
     distance_from_x |-> Abs(Y(walker.loc)),
     distance_from_y |-> Abs(X(walker.loc))]

\* the record written at __total_dict[walker_name][i]
step_record(walker, time, count) ==
    [locations |-> walker.loc,
     escape_time |-> IF escape_check_value(walker) THEN time ELSE None,
     y_crosses |-> Max(0, count),
     distance_from_origin_sq |-> Dist2(walker.loc, Origin),
     distance_from_x |-> Abs(Y(walker.loc)),
     distance_from_y |-> Abs(X(walker.loc))]

\* faulty variant: the steps are numbered from 0
simulation_results_update_zero_based(table, step, rec) ==
    [k \in (DOMAIN table) \cup {step - 1} |-> IF k = step - 1 THEN rec ELSE table[k]]

simulation_results_update(table, step, rec) ==
    [k \in (DOMAIN table) \cup {step} |-> IF k = step THEN rec ELSE table[k]]

\* faulty variant: the entry of a walker is replaced by the run that comes in
load_to_dict_replacing(stat, dicti, n) ==
    [w \in (DOMAIN stat) \cup (DOMAIN dicti) |->
        IF w \in DOMAIN dicti THEN [r \in {n} |-> dicti[w]] ELSE stat[w]]

\* Statistics.load_to_dict(dicti, i)
load_to_dict(stat, dicti, n) ==
    [w \in (DOMAIN stat) \cup (DOMAIN dicti) |->
        IF w \in DOMAIN dicti
        THEN IF w \notin DOMAIN stat
             THEN [r \in {n} |-> dicti[w]]
             ELSE [r \in (DOMAIN stat[w]) \cup {n} |->
                      IF r = n THEN dicti[w] ELSE stat[w][r]]
        ELSE stat[w]]

export_to_statistics(stat, dicti, n) == load_to_dict(stat, dicti, n)

\* Simulation.reset on sim = [walkers, escape_times, crosses_y, total_dict]:
\* every walker is reset by the method of its class and the three
\* dictionaries are built anew over the walkers' names
reset(sim) ==
    [walkers |-> [w \in DOMAIN sim.walkers |->
                     IF is_MemoryWalker(sim.walkers[w])
                     THEN MemoryWalker_reset_walker(sim.walkers[w])
                     ELSE reset_walker(sim.walkers[w])],
     escape_times |-> [w \in DOMAIN sim.walkers |-> None],
     crosses_y |-> [w \in DOMAIN sim.walkers |-> -1],
     total_dict |-> [w \in DOMAIN sim.walkers |-> <<>>]]

----------------------------------------------------------------------------
(* Configurations: what load_sim_objects builds from a config file that    *)
(* passes the loader's checks (no obstacle, gate entrance or water on the  *)
(* origin; obstacles and gate entrances pairwise disjoint; terrains        *)
(* pairwise disjoint; no gate exit inside an obstacle or its own entrance).*)

\* a gate above the origin whose exit lies in the entrance of the second
\* gate, which leads beyond the escape radius; a gate on the left that
\* leads to distance 10 exactly
WorldGates == <<Gate(<<-1, 1>>, <<10, 10>>, 2, 2),
                Gate(<<9, 9>>, <<0, 22>>, 2, 2),
                Gate(<<-5, -1>>, <<20, 0>>, 2, 2)>>
WorldWaters == <<Rect(-3, -3, 2, 2)>>
WorldSands == <<Rect(2, -1, 1, 2)>>
WorldGrasses == <<Rect(1, -3, 2, 1)>>

\* one walker in the full world, the obstacle behind the exit of the third gate
SoloConfig ==
    [sims |-> 1, moves |-> SoloMoves, names |-> <<"StraightWalker1">>,
     interaction |-> None,
     obstacles |-> <<Rect(23, -1, 2, 2)>>,
     gates |-> WorldGates,
     waters |-> WorldWaters, sands |-> WorldSands, grasses |-> WorldGrasses]

\* several simulations of one walker that can leave the origin upwards only
DriverConfig ==
    [sims |-> DriverRuns, moves |-> DriverMoves, names |-> <<"StraightWalker1">>,
     interaction |-> None,
     obstacles |-> <<Rect(-3, -1, 1, 2), Rect(2, -1, 1, 2), Rect(-1, -3, 2, 1)>>,
     gates |-> <<WorldGates[1], WorldGates[2]>>,
     waters |-> <<>>, sands |-> <<>>, grasses |-> <<>>]

\* two walkers that attract or repel each other: a gate on three sides of
\* the origin and an obstacle below it
PairGates == <<WorldGates[1], WorldGates[2],
               Gate(<<-3, -1>>, <<-20, 0>>, 1, 2),
               Gate(<<2, -1>>, <<20, 0>>, 1, 2)>>
PairConfigs ==
    {[sims |-> 1, moves |-> PairMoves,
      names |-> <<"StraightWalker1", "StraightWalker2">>,
      interaction |-> Some(mode),
      obstacles |-> <<Rect(-1, -3, 2, 1)>>,
      gates |-> PairGates,
      waters |-> WorldWaters, sands |-> <<>>, grasses |-> WorldGrasses] :
        mode \in {"attract", "repel"}}

\* one MemoryWalker: the gate above the origin leads into a pool of water
\* from which the way back to the origin is barred by an obstacle
MemoryConfig ==
    [sims |-> 1, moves |-> MemoryMoves, names |-> <<"MemoryWalker1">>,
     interaction |-> None,
     obstacles |-> <<Rect(-1, 5, 2, 2)>>,
     gates |-> <<Gate(<<-1, 2>>, <<0, 12>>, 2, 1)>>,
     waters |-> <<Rect(-3, 9, 6, 6)>>, sands |-> <<>>, grasses |-> <<>>]

\* several simulations of one walker that stays where its first step takes
\* it: a gate on the left of the origin leads to (-3, 0), into a pool of
\* water; a gate above it leads beyond the escape radius, into a pool; a gate
\* on the right leads to (3, 0), where gates on all sides lead beyond the
\* radius, into a pool; below the origin lies an obstacle
StatsConfig ==
    [sims |-> StatsRuns, moves |-> StatsMoves, names |-> <<"StraightWalker1">>,
     interaction |-> None,
     obstacles |-> <<Rect(-1, -3, 2, 1)>>,
     gates |-> <<Gate(<<4, -1>>, <<22, 0>>, 1, 2), Gate(<<8, -1>>, <<22, 0>>, 1, 2),
                 Gate(<<5, 2>>, <<22, 0>>, 2, 1), Gate(<<5, -3>>, <<22, 0>>, 2, 1),
                 Gate(<<-3, -1>>, <<-6, 0>>, 1, 2), Gate(<<2, -1>>, <<6, 0>>, 1, 2),
                 Gate(<<-1, 2>>, <<0, 22>>, 2, 1)>>,
     waters |-> <<Rect(-9, -3, 5, 6), Rect(-3, 19, 6, 6), Rect(19, -3, 6, 6)>>,
     sands |-> <<>>, grasses |-> <<>>]

\* three walkers that attract or repel each other, and a single walker on
\* which an interaction mode is set (set_interaction does not look at the
\* number of walkers)
TrioConfigs ==
    {[sims |-> 1, moves |-> NearestMoves,
      names |-> <<"StraightWalker1", "StraightWalker2", "StraightWalker3">>,
      interaction |-> Some(mode),
      obstacles |-> <<>>,
      gates |-> PairGates,
      waters |-> <<>>, sands |-> <<>>, grasses |-> <<>>] :
        mode \in {"attract", "repel"}}
LoneConfigs ==
    {[sims |-> 1, moves |-> NearestMoves,
      names |-> <<"StraightWalker1">>,
      interaction |-> Some(mode),
      obstacles |-> <<>>,
      gates |-> PairGates,
      waters |-> <<>>, sands |-> <<>>, grasses |-> <<>>] :
        mode \in {"attract", "repel"}}

\* one DirectionalBiasWalker with the weights asked of the user (down, up,
\* right, left, towards the origin): a gate below the origin leads to (0, 3)
\* and an obstacle lies above the origin.  The weights keep the walker on an
\* axis, where the step towards the origin is a whole step
BiasWeights == {<<1, 0, 0, 0, 0>>, <<0, 1, 0, 0, 0>>, <<1, 1, 0, 0, 1>>,
                <<0, 0, 1, 1, 1>>, <<0, 2, 0, 0, 1>>, <<0, 0, 0, 0, 1>>}
BiasConfigs ==
    {[sims |-> 1, moves |-> BiasMoves, names |-> <<"DirectionalBiasWalker1">>,
      interaction |-> None,
      obstacles |-> <<Rect(-1, 2, 2, 1)>>,
      gates |-> <<Gate(<<-1, -3>>, <<0, 6>>, 2, 1)>>,
      waters |-> <<>>, sands |-> <<>>, grasses |-> <<>>,
      bias_probabilities |-> weights] : weights \in BiasWeights}

\* two walkers that attract each other next to an obstacle that lies
\* diagonally off the origin
RevertConfig ==
    [sims |-> 1, moves |-> RevertMoves,
     names |-> <<"StraightWalker1", "StraightWalker2">>,
     interaction |-> Some("attract"),
     obstacles |-> <<Rect(1, 1, 1, 1)>>,
     gates |-> <<>>,
     waters |-> <<>>, sands |-> <<>>, grasses |-> <<>>]

\* a walker of the free-angle family beside a StraightWalker, attracting or
\* repelling each other on an empty plane; the UnitWalker is followed for
\* one step, where every bearing it can meet has a whole unit vector
FreeConfigs ==
    {[sims |-> 1, moves |-> FreeMoves,
      names |-> <<"RandomDistanceWalker1", "StraightWalker1">>,
      interaction |-> Some(mode),
      obstacles |-> <<>>, gates |-> <<>>,
      waters |-> <<>>, sands |-> <<>>, grasses |-> <<>>] :
        mode \in {"attract", "repel"}}
    \cup
    {[sims |-> 1, moves |-> 1,
      names |-> names,
      interaction |-> Some(mode),
      obstacles |-> <<>>, gates |-> <<>>,
      waters |-> <<>>, sands |-> <<>>, grasses |-> <<>>] :
        mode \in {"attract", "repel"},
        names \in {<<"UnitWalker1", "StraightWalker1">>,
                   <<"StraightWalker1", "UnitWalker1">>}}

\* a simulation that is run, reset and run again: a StraightWalker and a
\* walker that, left to itself, always steps down, attracting each other;
\* the gate lies diagonally off the origin
ReuseConfig ==
    [sims |-> ReuseRuns, moves |-> ReuseMoves,
     names |-> <<"StraightWalker1", "DirectionalBiasWalker1">>,
     interaction |-> Some("attract"),
     obstacles |-> <<>>,
     gates |-> <<Gate(<<1, 1>>, <<6, 6>>, 1, 1)>>,
     waters |-> <<>>, sands |-> <<>>, grasses |-> <<>>,
     bias_probabilities |-> <<1, 0, 0, 0, 0>>]

\* get_walkers_from_json: the object of the class named in the config file
\* (add_walker names it by its class and a running index)
new_walker(config, name) ==
    IF name = "MemoryWalker1" THEN MemoryWalker
    ELSE IF name = "DirectionalBiasWalker1"
    THEN DirectionalBiasWalker(config.bias_probabilities)
    ELSE IF name = "UnitWalker1" THEN UnitWalker
    ELSE IF name = "RandomDistanceWalker1" THEN RandomDistanceWalker
    ELSE Walker

Names == {walker_names[k] : k \in 1..Len(walker_names)}
\* faulty variant: the walkers are taken in the reverse of insertion order
walker_name_reversed == walker_names[Len(walker_names) + 1 - cur]

walker_name == walker_names[cur]

\* main: a Simulation built by Simulation(num_steps), load_sim_objects and
\* set_interaction, and an empty Statistics
Setup(config) ==
    /\ num_simulations = config.sims
    /\ num_moves = config.moves
    /\ walker_names = config.names
    /\ walkers_interaction = config.interaction
    /\ obstacles = config.obstacles
    /\ enchanted_gates = config.gates
    /\ waters = config.waters
    /\ sands = config.sands
    /\ grasses = config.grasses
    /\ walkers = [w \in {config.names[k] : k \in 1..Len(config.names)} |->
                     new_walker(config, w)]
    /\ escape_times = [w \in {config.names[k] : k \in 1..Len(config.names)} |-> None]
    /\ crosses_y = [w \in {config.names[k] : k \in 1..Len(config.names)} |-> -1]
    /\ total_dict = [w \in {config.names[k] : k \in 1..Len(config.names)} |-> <<>>]
    /\ stats = <<>>
    /\ run = 1
    /\ pc = "main"
    /\ i = 0
    /\ cur = 0
    /\ collision_attempts = 0
    /\ result = None

Init == Setup(SoloConfig)
InitDriver == Setup(DriverConfig)
InitPair == \E config \in PairConfigs : Setup(config)
InitMemory == Setup(MemoryConfig)
InitStats == Setup(StatsConfig)
InitBias == \E config \in BiasConfigs : Setup(config)
InitInteraction ==
    \E config \in {RevertConfig, ReuseConfig} \cup FreeConfigs : Setup(config)
InitNearest == \E config \in PairConfigs \cup TrioConfigs \cup LoneConfigs : Setup(config)

----------------------------------------------------------------------------
(* Actions.                                                                *)

\* main calls sim.run_simulation(): the two loops start
CallRun ==
    /\ pc = "main"
    /\ run <= num_simulations
    /\ pc' = "walker"
    /\ i' = 1
    /\ cur' = 1
    /\ collision_attempts' = 0
    /\ result' = None
    /\ UNCHANGED <<cfgVars, simVars, stats, run>>

\* faulty variant: the terrain of the transformed position has its effect too
FirstMove_reapplies_terrain ==
    /\ pc = "walker"
    /\ \E draw \in Draws(walkers[walker_name], walkers_interaction) :
         /\ ~ choose_move_raises(walkers, walker_names, walkers_interaction,
                                 walker_name, draw)
         /\ LET moved == choose_move(walkers, walker_names, walkers_interaction,
                                     walker_name, draw)
                terrain == terrain_check(moved, waters, sands, grasses)
                once == handle_terrain(moved, terrain)
                again == terrain_check(once, waters, sands, grasses)
            IN  walkers' = [walkers EXCEPT ![walker_name] =
                               IF terrain /= "False" THEN handle_terrain(once, again)
                               ELSE once]
    /\ collision_attempts' = 0
    /\ pc' = "while"
    /\ UNCHANGED <<cfgVars, escape_times, crosses_y, total_dict, stats, run, i, cur, result>>

\* the first candidate move of walker_name in step i
FirstMove ==
    /\ pc = "walker"
    /\ \E draw \in Draws(walkers[walker_name], walkers_interaction) :
         /\ ~ choose_move_raises(walkers, walker_names, walkers_interaction,
                                 walker_name, draw)
         /\ LET moved == choose_move(walkers, walker_names, walkers_interaction,
                                     walker_name, draw)
                terrain == terrain_check(moved, waters, sands, grasses)
            IN  walkers' = [walkers EXCEPT ![walker_name] = handle_terrain(moved, terrain)]
    /\ collision_attempts' = 0
    /\ pc' = "while"
    /\ UNCHANGED <<cfgVars, escape_times, crosses_y, total_dict, stats, run, i, cur, result>>

\* choose_move raises ValueError, at the first candidate move or at a retry
\* (the walker is put back first): the exception leaves run_simulation and
\* main
RaiseValueError ==
    /\ \/ /\ pc = "walker"
          /\ \E draw \in Draws(walkers[walker_name], walkers_interaction) :
                choose_move_raises(walkers, walker_names, walkers_interaction,
                                   walker_name, draw)
          /\ UNCHANGED walkers
       \/ /\ pc = "while"
          /\ check_collision(walkers[walker_name], obstacles)
          /\ collision_attempts < max_collision_attempts
          /\ LET back == [walkers EXCEPT ![walker_name] = move_back(@)]
             IN  /\ \E draw \in Draws(back[walker_name], walkers_interaction) :
                       choose_move_raises(back, walker_names, walkers_interaction,
                                          walker_name, draw)
                 /\ walkers' = back
    /\ pc' = "raised"
    /\ UNCHANGED <<cfgVars, escape_times, crosses_y, total_dict, runVars, stats, run>>

\* one turn of the while loop: the candidate collides and is drawn again
RetryMove ==
    /\ pc = "while"
    /\ check_collision(walkers[walker_name], obstacles)
    /\ collision_attempts < max_collision_attempts
    /\ \E draw \in Draws(move_back(walkers[walker_name]), walkers_interaction) :
         LET back == [walkers EXCEPT ![walker_name] = move_back(@)]
             moved == choose_move(back, walker_names, walkers_interaction,
                                  walker_name, draw)
             terrain == terrain_check(moved, waters, sands, grasses)
         IN  /\ ~ choose_move_raises(back, walker_names, walkers_interaction,
                                     walker_name, draw)
             /\ walkers' = [walkers EXCEPT ![walker_name] =
                               IF terrain /= "False" THEN handle_terrain(moved, terrain)
                               ELSE moved]
    /\ collision_attempts' = collision_attempts + 1
    /\ UNCHANGED <<cfgVars, escape_times, crosses_y, total_dict, stats, run, pc, i, cur, result>>

\* faulty variant: the walker is given up and the loops go on
AbortRun_next_walker ==
    /\ pc = "while"
    /\ check_collision(walkers[walker_name], obstacles)
    /\ collision_attempts >= max_collision_attempts
    /\ collision_attempts' = 0
    /\ IF cur < Len(walker_names)
       THEN cur' = cur + 1 /\ pc' = "walker" /\ UNCHANGED <<i, result>>
       ELSE IF i < num_moves
       THEN cur' = 1 /\ i' = i + 1 /\ pc' = "walker" /\ UNCHANGED result
       ELSE result' = Some(TRUE) /\ pc' = "returned" /\ UNCHANGED <<i, cur>>
    /\ UNCHANGED <<cfgVars, simVars, stats, run>>

\* the candidate collides and the attempts are used up: return False
AbortRun ==
    /\ pc = "while"
    /\ check_collision(walkers[walker_name], obstacles)
    /\ collision_attempts >= max_collision_attempts
    /\ result' = Some(FALSE)
    /\ pc' = "returned"
    /\ UNCHANGED <<cfgVars, simVars, stats, run, i, cur, collision_attempts>>

\* the candidate does not collide: gate, escape, crossing, record; then the
\* next walker, the next step or return True
FinishWalker ==
    /\ pc = "while"
    /\ ~ check_collision(walkers[walker_name], obstacles)
    /\ LET gated == gate_check(remember(walkers[walker_name]), enchanted_gates)
           time == escape_check(escape_times[walker_name], gated, i)
           walker == escape_check_walker(gated)
           count == cross_y_check(crosses_y[walker_name], walker)
       IN  /\ walkers' = [walkers EXCEPT ![walker_name] = walker]
           /\ escape_times' = [escape_times EXCEPT ![walker_name] = time]
           /\ crosses_y' = [crosses_y EXCEPT ![walker_name] = count]
           /\ total_dict' = [total_dict EXCEPT ![walker_name] =
                  simulation_results_update(@, i, step_record(walker, time, count))]
    /\ collision_attempts' = 0
    /\ IF cur < Len(walker_names)
       THEN cur' = cur + 1 /\ pc' = "walker" /\ UNCHANGED <<i, result>>
       ELSE IF i < num_moves
       THEN cur' = 1 /\ i' = i + 1 /\ pc' = "walker" /\ UNCHANGED result
       ELSE result' = Some(TRUE) /\ pc' = "returned" /\ UNCHANGED <<i, cur>>
    /\ UNCHANGED <<cfgVars, stats, run>>

\* main: run_simulation returned True, the run is exported
ExportRun ==
    /\ pc = "returned"
    /\ result = Some(TRUE)
    /\ stats' = export_to_statistics(stats, total_dict, run)
    /\ pc' = "reset"
    /\ UNCHANGED <<cfgVars, simVars, runVars, run>>

\* faulty variant: the returned value is ignored and the run is exported
SkipExport_exports ==
    /\ pc = "returned"
    /\ result = Some(FALSE)
    /\ stats' = export_to_statistics(stats, total_dict, run)
    /\ pc' = "reset"
    /\ UNCHANGED <<cfgVars, simVars, runVars, run>>

\* main: run_simulation returned False, the run is not exported
SkipExport ==
    /\ pc = "returned"
    /\ result = Some(FALSE)
    /\ pc' = "reset"
    /\ UNCHANGED <<cfgVars, simVars, runVars, stats, run>>

\* faulty variant: reset also empties the list of obstacles
ResetSim_clears_obstacles ==
    /\ pc = "reset"
    /\ LET sim == reset([walkers |-> walkers, escape_times |-> escape_times,
                         crosses_y |-> crosses_y, total_dict |-> total_dict])
       IN  /\ walkers' = sim.walkers
           /\ escape_times' = sim.escape_times
           /\ crosses_y' = sim.crosses_y
           /\ total_dict' = sim.total_dict
    /\ obstacles' = <<>>
    /\ run' = run + 1
    /\ pc' = "main"
    /\ UNCHANGED <<num_simulations, num_moves, walker_names, walkers_interaction,
                   enchanted_gates, waters, sands, grasses, runVars, stats>>

\* main: sim.reset(), and the loop goes on to the next simulation
ResetSim ==
    /\ pc = "reset"
    /\ LET sim == reset([walkers |-> walkers, escape_times |-> escape_times,
                         crosses_y |-> crosses_y, total_dict |-> total_dict])
       IN  /\ walkers' = sim.walkers
           /\ escape_times' = sim.escape_times
           /\ crosses_y' = sim.crosses_y
           /\ total_dict' = sim.total_dict
    /\ run' = run + 1
    /\ pc' = "main"
    /\ UNCHANGED <<cfgVars, runVars, stats>>

Next ==
    \/ CallRun
    \/ FirstMove
    \/ RetryMove
    \/ AbortRun
    \/ FinishWalker
    \/ ExportRun
    \/ SkipExport
    \/ ResetSim

\* the steps of a simulation that may hold less than two walkers
NextNearest ==
    \/ Next
    \/ RaiseValueError

Spec == Init /\ [][Next]_vars
SpecDriver == InitDriver /\ [][Next]_vars
SpecPair == InitPair /\ [][Next]_vars
SpecMemory == InitMemory /\ [][Next]_vars
SpecStats == InitStats /\ [][Next]_vars
SpecBias == InitBias /\ [][NextNearest]_vars
SpecInteraction == InitInteraction /\ [][Next]_vars
SpecNearest == InitNearest /\ [][NextNearest]_vars

\* the interpreter does not stop between two statements: a step that can be
\* taken is taken
FairSpecBias == SpecBias /\ WF_vars(NextNearest)

----------------------------------------------------------------------------
(* Properties.                                                             *)

Table(w) == total_dict[w]
Steps(w) == DOMAIN total_dict[w]
Colliding == check_collision(walkers[walker_names[cur]], obstacles)

\* C1: the retry counter belongs to one walker in one step: it starts at 0
\* with the walker's first candidate move, counts one per colliding
\* candidate and never passes 1000.  run_simulation returns False exactly
\* when the candidate still collides and 1000 retries have been made, at
\* once: the walkers before the trapped one have their record of step i,
\* the trapped walker and the walkers after it have none, nothing is
\* recorded for a later step, and the simulation state is left as it was.
C1_AbortsAfterMaxAttempts ==
    /\ [](collision_attempts \in 0..max_collision_attempts)
    /\ []((pc \in {"returned", "reset"} /\ result = Some(FALSE)) =>
            /\ collision_attempts = max_collision_attempts
            /\ Colliding
            /\ \A k \in 1..Len(walker_names) :
                 Steps(walker_names[k]) = IF k < cur THEN 1..i ELSE 1..(i - 1))
    /\ [][/\ (pc = "walker" => collision_attempts' = 0)
          /\ ((pc = "while" /\ Colliding /\ collision_attempts < max_collision_attempts) =>
                /\ collision_attempts' = collision_attempts + 1
                /\ UNCHANGED <<pc, i, cur, result, total_dict>>)
          /\ ((pc = "while" /\ Colliding /\ collision_attempts = max_collision_attempts) =>
                /\ result' = Some(FALSE)
                /\ pc' = "returned"
                /\ UNCHANGED <<simVars, stats, i, cur>>)
          /\ ((result' = Some(FALSE) /\ result /= Some(FALSE)) =>
                (pc = "while" /\ Colliding /\ collision_attempts = max_collision_attempts))
         ]_vars

\* the first of two walkers is trapped in step 1: the run has returned False,
\* nothing is recorded and the second walker has not moved
C1_Witness ==
    /\ pc = "returned"
    /\ result = Some(FALSE)
    /\ Len(walker_names) = 2
    /\ cur = 1
    /\ i < num_moves
    /\ \A w \in Names : Steps(w) = {}
    /\ walkers[walker_names[2]] = Walker

\* C2: a run in which no candidate collides returns True (False is returned
\* out of a collision only), and when True is returned every walker's table
\* has exactly the keys 1..N.  At any time a table has the keys 1..n for
\* some n: a key is written once, in increasing order, by the walker whose
\* turn it is, and the records written before are kept.
C2_StepsAreOneToN ==
    /\ [](\A w \in Names : \E n \in 0..num_moves : Steps(w) = 1..n)
    /\ []((pc \in {"returned", "reset"} /\ result = Some(TRUE)) =>
            \A w \in Names : Steps(w) = 1..num_moves)
    /\ [][/\ ((result' = Some(FALSE) /\ result /= Some(FALSE)) => Colliding)
          /\ ((pc = "while" /\ ~ Colliding) =>
                /\ pc' /= "while"
                /\ result' /= Some(FALSE)
                /\ \A w \in Names :
                     w = walker_names[cur] => Steps(w)' = Steps(w) \cup {i})
          /\ (pc /= "reset" =>
                \A w \in Names :
                    \/ Table(w)' = Table(w)
                    \/ /\ w = walker_names[cur]
                       /\ i \notin Steps(w)
                       /\ \A k \in Steps(w) : k < i /\ Table(w)'[k] = Table(w)[k]
                       /\ Steps(w)' = Steps(w) \cup {i})
         ]_vars

\* a run of two steps of two walkers has returned True
C2_Witness ==
    /\ pc = "returned"
    /\ result = Some(TRUE)
    /\ num_moves >= 2
    /\ Len(walker_names) = 2
    /\ \A w \in Names : Steps(w) = 1..num_moves

RunsOf(w) == IF w \in DOMAIN stats THEN DOMAIN stats[w] ELSE {}

\* C3: the driver merges a run into the Statistics only when run_simulation
\* returned True, under the number of the run and leaving the runs merged
\* before as they are; after a run that returned False the Statistics are
\* unchanged.  reset() follows every run, whatever it returned, and the
\* loop then goes on with the next run.
C3_OnlyCompletedRunsAreExported ==
    /\ [](\A w \in DOMAIN stats : DOMAIN stats[w] \subseteq 1..num_simulations)
    /\ []((pc = "main" /\ run <= num_simulations) => ENABLED CallRun)
    /\ [][/\ (stats' /= stats => (pc = "returned" /\ result = Some(TRUE)))
          /\ ((pc = "returned" /\ result = Some(TRUE)) =>
                /\ pc' = "reset"
                /\ \A w \in Names :
                     /\ RunsOf(w)' = RunsOf(w) \cup {run}
                     /\ stats'[w][run] = Table(w)
                     /\ \A r \in RunsOf(w) \ {run} : stats'[w][r] = stats[w][r])
          /\ ((pc = "returned" /\ result = Some(FALSE)) =>
                (pc' = "reset" /\ stats' = stats))
          /\ (pc = "reset" =>
                /\ pc' = "main"
                /\ run' = run + 1
                /\ \A w \in Names :
                     /\ walkers'[w].loc = Origin
                     /\ ~ walkers'[w].escaped
                     /\ escape_times'[w] = None
                     /\ crosses_y'[w] = -1
                     /\ Steps(w)' = {})
          /\ (pc = "main" => (pc' = "walker" /\ run' = run))
         ]_vars

\* the first run was aborted and the second one completed: the Statistics
\* hold run 2 alone
C3_Witness ==
    /\ pc = "reset"
    /\ run = 2
    /\ result = Some(TRUE)
    /\ \A w \in Names : RunsOf(w) = {2} /\ stats[w][2] = Table(w) /\ Steps(w) = 1..num_moves

\* C4: after every change of a walker's position (by its own move, by an
\* interaction move, by a terrain effect or by a gate) get_prev_location()
\* is the position the walker held immediately before that change.
C4_PrevIsPositionBeforeLatestChange ==
    \A w \in Names :
        walkers[w].moved_from /= None =>
            get_prev_location(walkers[w]) = walkers[w].moved_from[1]

\* the gates of the list whose entrance the walker's trajectory meets
MatchingGates(walker, gateList) ==
    {k \in 1..Len(gateList) :
        SegmentIntersects(walker.prev, walker.loc, gateList[k])}
FirstMatchingGate(walker, gateList) ==
    CHOOSE k \in MatchingGates(walker, gateList) :
        \A m \in MatchingGates(walker, gateList) : k <= m

\* C5: when the trajectory of a walker whose move was accepted meets the
\* entrance of a gate, the walker ends the step at the exit of the first
\* such gate of the list: no later gate is applied.
C5_FirstMatchingGateWins ==
    [][\A w \in Names :
          (/\ pc = "while"
           /\ w = walker_names[cur]
           /\ ~ Colliding
           /\ MatchingGates(walkers[w], enchanted_gates) /= {}) =>
             walkers'[w].loc =
                 enchanted_gates[FirstMatchingGate(walkers[w], enchanted_gates)].exit
      ]_vars

\* C6: within a run the escaped flag of a walker never goes back to false,
\* wherever the walker moves afterwards; reset() clears it.
C6_EscapedIsMonotonic ==
    [][\A w \in Names :
          /\ ((walkers[w].escaped /\ pc /= "reset") => walkers'[w].escaped)
          /\ (pc = "reset" => ~ walkers'[w].escaped)
      ]_vars

\* an escaped walker has come back to distance 10 or less and its step there
\* has been recorded
C6_Witness ==
    \E w \in Names :
        /\ walkers[w].escaped
        /\ Dist2(walkers[w].loc, Origin) <= (escape_radius * Unit) * (escape_radius * Unit)
        /\ \E k \in Steps(w) : k >= 2 /\ Table(w)[k].locations = walkers[w].loc
        /\ pc = "walker"

\* the recorded steps of w that end farther than 10 from the origin
FarSteps(w) ==
    {k \in Steps(w) :
        Table(w)[k].distance_from_origin_sq >
            (escape_radius * Unit) * (escape_radius * Unit)}
FirstOf(S) == CHOOSE k \in S : \A m \in S : k <= m
LastOf(S) == CHOOSE k \in S : \A m \in S : k >= m

\* C7: a walker is escaped from the first step s that ends at a distance
\* greater than 10 (exactly 10 is no escape).  Until then its entry in
\* get_escape_times() is the number of the step just completed; from step s
\* on the entry stays at s - 1.
C7_EscapeTimeIsStepBeforeEscape ==
    \A w \in Names :
        Steps(w) /= {} =>
            /\ walkers[w].escaped <=> FarSteps(w) /= {}
            /\ FarSteps(w) = {} => escape_times[w] = Some(LastOf(Steps(w)))
            /\ FarSteps(w) /= {} => escape_times[w] = Some(FirstOf(FarSteps(w)) - 1)

\* the step record k of w was written when w had escaped
EscapedAt(w, k) == \E m \in FarSteps(w) : m <= k

\* C8 as stated: the escape-time field of a record is the walker's escape
\* time (the number of the step) while it has not escaped and none
\* once it has.
C8_EscapeTimeUntilEscape ==
    \A w \in Names : \A k \in Steps(w) :
        Table(w)[k].escape_time = IF EscapedAt(w, k) THEN None ELSE Some(k)

\* C8: the escape-time field of a record is none while the walker has not
\* escaped; once it has escaped the field is the walker's entry in
\* get_escape_times(): s - 1 for an escape at step s >= 2, none for an
\* escape at step 1.
C8_EscapeTimeOnceEscaped ==
    \A w \in Names : \A k \in Steps(w) :
        /\ Table(w)[k].escape_time =
              IF ~ EscapedAt(w, k) \/ FirstOf(FarSteps(w) \cup {k}) = 1 THEN None
              ELSE Some(FirstOf(FarSteps(w)) - 1)
        /\ (k = LastOf(Steps(w)) /\ EscapedAt(w, k)) =>
              Table(w)[k].escape_time = escape_times[w]

\* a record written before the escape holds none and a later one, written
\* after the escape, holds the number of the step before the escape
C8_Witness ==
    \E w \in Names : \E k \in Steps(w) :
        /\ k >= 2
        /\ ~ EscapedAt(w, k - 1)
        /\ Table(w)[k - 1].escape_time = None
        /\ EscapedAt(w, k)
        /\ Table(w)[k].escape_time = Some(k - 1)

XBefore(w, k) == IF k = 1 THEN 0 ELSE X(Table(w)[k - 1].locations)
XAfter(w, k) == X(Table(w)[k].locations)
\* the steps up to step n in which the walker left the axis or changed sides
SideChanges(w, n) ==
    {k \in Steps(w) :
        /\ k <= n
        /\ XAfter(w, k) /= 0
        /\ Sign(XBefore(w, k)) /= Sign(XAfter(w, k))}

\* C10: the crossing counter is -1 when a run starts.  It stays at -1 while
\* x stays 0, is 0 after a single change from 0 to some x /= 0, and after n
\* changes of side is n - 1: it lags the number of changes by one.  The
\* count of a step record is max(0, counter): never negative and never
\* smaller than the count of the record before.
C10_CounterLagsByOne ==
    \A w \in Names :
        /\ crosses_y[w] >= -1
        /\ pc = "main" => crosses_y[w] = -1
        /\ (\A k \in Steps(w) : XAfter(w, k) = 0) => crosses_y[w] = -1
        /\ pc \in {"walker", "returned"} =>
              crosses_y[w] = Cardinality(SideChanges(w, num_moves)) - 1
        /\ \A k \in Steps(w) :
              /\ Table(w)[k].y_crosses = Max(0, Cardinality(SideChanges(w, k)) - 1)
              /\ Table(w)[k].y_crosses >= 0
              /\ k > 1 => Table(w)[k].y_crosses >= Table(w)[k - 1].y_crosses

\* x went 0, 1/2, -1/2, 1/2, -1/2: three changes of side after the walker
\* left the axis, the counter is 3 and the records count 0, 1, 2, 3
C10_Witness ==
    \E w \in Names :
        /\ Steps(w) = 1..4
        /\ \A k \in 1..4 : XAfter(w, k) = IF k % 2 = 1 THEN 1 ELSE -1
        /\ \A k \in 1..4 : Table(w)[k].y_crosses = k - 1
        /\ crosses_y[w] = 3

----------------------------------------------------------------------------
(* Claims on reset, the statistics, the interaction and the walker classes. *)

Simulation == [walkers |-> walkers, escape_times |-> escape_times,
               crosses_y |-> crosses_y, total_dict |-> total_dict]

\* the state of a simulation on which no run has left a trace
Idle(sim) ==
    /\ DOMAIN sim.walkers = Names
    /\ DOMAIN sim.escape_times = Names
    /\ DOMAIN sim.crosses_y = Names
    /\ DOMAIN sim.total_dict = Names
    /\ \A w \in Names :
         /\ sim.walkers[w].loc = Origin
         /\ sim.walkers[w].escaped = FALSE
         /\ ("memory" \in DOMAIN walkers[w] =>
                "memory" \in DOMAIN sim.walkers[w] /\ sim.walkers[w].memory = <<>>)
         /\ sim.escape_times[w] = None
         /\ sim.crosses_y[w] = -1
         /\ sim.total_dict[w] = <<>>

\* C11: reset() called in any state (before a run, in the middle of one,
\* after a completed or an aborted one) leaves every walker at the origin
\* and not escaped, a MemoryWalker with an empty history, every escape time
\* none, every crossing counter -1 and every table empty; and that is the
\* state in which main starts every simulation.
C11_ResetReturnsToIdle ==
    /\ Idle(reset(Simulation))
    /\ (pc = "main" => Idle(Simulation))

\* reset has been called after an aborted run of a MemoryWalker
C11_Witness ==
    /\ pc = "main"
    /\ run = 2
    /\ result = Some(FALSE)
    /\ \E w \in Names : "memory" \in DOMAIN walkers[w] /\ walkers[w].prev /= Origin

\* C12: reset() and run_simulation() leave the configuration as it was
\* loaded: the walkers' names and their order, the set of walker objects,
\* the lists of waters, sands, grasses, obstacles and gates, the interaction
\* mode and the step budget.
C12_ConfigurationIsKept ==
    /\ num_moves = DriverConfig.moves
    /\ walker_names = DriverConfig.names
    /\ DOMAIN walkers = {DriverConfig.names[k] : k \in 1..Len(DriverConfig.names)}
    /\ walkers_interaction = DriverConfig.interaction
    /\ obstacles = DriverConfig.obstacles
    /\ enchanted_gates = DriverConfig.gates
    /\ waters = DriverConfig.waters
    /\ sands = DriverConfig.sands
    /\ grasses = DriverConfig.grasses

\* a run, a reset and a second run have taken place
C12_Witness ==
    /\ run = 2
    /\ pc = "returned"
    /\ obstacles /= <<>>

OriginDistance(rec) == Root(Dist2(rec.locations, Origin))
Recorded(rec, what) ==
    CASE what = "distance" -> OriginDistance(rec)
      [] what = "crossings" -> rec.y_crosses
      [] what = "|x|" -> Abs(X(rec.locations))
      [] what = "|y|" -> Abs(Y(rec.locations))

\* the sum of a recorded value of step k over the accumulated runs among 1..n
RECURSIVE SumRuns(_, _, _, _)
SumRuns(w, n, k, what) ==
    IF n = 0 THEN 0
    ELSE (IF n \in DOMAIN stats[w] THEN Recorded(stats[w][n][k], what) ELSE 0)
         + SumRuns(w, n - 1, k, what)
StepKeys == {ToString(k) : k \in 1..num_moves}

\* C13: for every walker and step, average_walker_distance_origin and
\* avg_cross_y_axis give the sum of the step's recorded value over the
\* accumulated runs divided by the number of accumulated runs; the indices
\* of runs that were not exported are not counted.  One accumulated run
\* gives that run's values; two runs that are at (3, 0) and (-3, 0) in a
\* step give the average distance 3 for it.
C13_AverageOverAccumulatedRuns ==
    \A w \in DOMAIN stats :
        LET n == Cardinality(DOMAIN stats[w])
            distance == average_walker_distance_origin(stats)[w]
            crossings == avg_cross_y_axis(stats)[w]
        IN  /\ DOMAIN distance = StepKeys
            /\ DOMAIN crossings = StepKeys
            /\ \A k \in 1..num_moves :
                 /\ distance[ToString(k)] =
                        <<SumRuns(w, num_simulations, k, "distance"), n>>
                 /\ crossings[ToString(k)] =
                        <<SumRuns(w, num_simulations, k, "crossings"), n>>
                 /\ \A r \in DOMAIN stats[w] :
                      n = 1 =>
                        /\ distance[ToString(k)] = <<OriginDistance(stats[w][r][k]), 1>>
                        /\ crossings[ToString(k)] = <<stats[w][r][k].y_crosses, 1>>
                 /\ \A r, q \in DOMAIN stats[w] :
                      (/\ n = 2
                       /\ stats[w][r][k].locations = <<3 * Unit, 0>>
                       /\ stats[w][q][k].locations = <<-3 * Unit, 0>>)
                      => distance[ToString(k)] = <<3 * Unit + 3 * Unit, 2>>

\* two runs are accumulated, at (3, 0) and at (-3, 0) after the first step
C13_Witness ==
    /\ pc = "main"
    /\ \E w \in DOMAIN stats :
         /\ DOMAIN stats[w] = {1, 2}
         /\ stats[w][1][1].locations = <<3 * Unit, 0>>
         /\ stats[w][2][1].locations = <<-3 * Unit, 0>>
         /\ average_walker_distance_origin(stats)[w]["1"] = <<6 * Unit, 2>>

FarStepsOfRun(w, r) ==
    {k \in DOMAIN stats[w][r] :
        Dist2(stats[w][r][k].locations, Origin) >
            (escape_radius * Unit) * (escape_radius * Unit)}

\* the accumulated runs in which w escaped, and the sum of their escape times
EscapedRuns(w) == {r \in DOMAIN stats[w] : FarStepsOfRun(w, r) /= {}}
RECURSIVE SumEscapeTimes(_, _)
SumEscapeTimes(w, S) ==
    IF S = {} THEN 0
    ELSE LET r == CHOOSE r \in S : TRUE
         IN  (FirstOf(FarStepsOfRun(w, r)) - 1) + SumEscapeTimes(w, S \ {r})

\* the average a / b is the mean of the escape times of the runs in S
IsMeanOver(average, w, S) ==
    IF S = {} THEN average[1] = 0
    ELSE average[1] * Cardinality(S) = average[2] * SumEscapeTimes(w, S)

\* C15: for every walker average_escape_time gives the mean, over the
\* accumulated runs in which the walker escaped, of the run's escape time
\* s - 1 (s the step of the escape), and 0 when it escaped in none.
C15_AverageOverEscapedRuns ==
    \A w \in DOMAIN stats :
        IsMeanOver(average_escape_time(stats)[w][1], w, EscapedRuns(w))

\* what the code computes: the mean over the runs in which the walker
\* escaped at a step s >= 2
C15_AverageOverRunsEscapedLater ==
    \A w \in DOMAIN stats :
        IsMeanOver(average_escape_time(stats)[w][1], w,
                   {r \in EscapedRuns(w) : FirstOf(FarStepsOfRun(w, r)) >= 2})

\* one accumulated run with the escape in step 2, one with the escape in step 1
C15_Witness ==
    \E w \in DOMAIN stats :
        /\ DOMAIN stats[w] = {1, 2}
        /\ FarStepsOfRun(w, 1) /= {} /\ FirstOf(FarStepsOfRun(w, 1)) = 2
        /\ FarStepsOfRun(w, 2) /= {} /\ FirstOf(FarStepsOfRun(w, 2)) = 1
        /\ average_escape_time(stats)[w][1][1] = average_escape_time(stats)[w][1][2]

\* C16: the count given with the average is the number of accumulated runs
\* in which the walker never escaped, whatever the step of an escape; the
\* runs that enter the average and the count add up to the accumulated runs.
C16_CountsRunsWithoutEscape ==
    \A w \in DOMAIN stats :
        average_escape_time(stats)[w][2] =
            Cardinality(DOMAIN stats[w]) - Cardinality(EscapedRuns(w))

\* what the code computes: the runs without an escape and the runs with the
\* escape in step 1
C16_CountsRunsWithoutEscapeTime ==
    \A w \in DOMAIN stats :
        average_escape_time(stats)[w][2] =
            Cardinality({r \in DOMAIN stats[w] :
                            \/ FarStepsOfRun(w, r) = {}
                            \/ FirstOf(FarStepsOfRun(w, r)) = 1})

\* the only accumulated run escaped in step 1 and is counted as unsuccessful
C16_Witness ==
    \E w \in DOMAIN stats :
        /\ DOMAIN stats[w] = {2}
        /\ FarStepsOfRun(w, 2) /= {} /\ FirstOf(FarStepsOfRun(w, 2)) = 1
        /\ average_escape_time(stats)[w] = <<<<0, 1>>, 1>>

Index(name) == CHOOSE k \in 1..Len(walker_names) : walker_names[k] = name

OnAny(position, rectangles) ==
    \E k \in 1..Len(rectangles) : PointIntersects(position, rectangles[k])

\* the position a candidate move from previous to new ends at
AfterTerrain(previous, new) ==
    IF OnAny(new, waters) THEN Origin
    ELSE IF OnAny(new, sands)
    THEN <<(X(previous) + X(new)) \div 2, (Y(previous) + Y(new)) \div 2>>
    ELSE IF OnAny(new, grasses)
    THEN <<X(new) + 2 * (X(new) - X(previous)), Y(new) + 2 * (Y(new) - Y(previous))>>
    ELSE new

StepFrom(previous, w) ==
    \E d \in directions :
        LET new == <<X(previous) + Unit * X(d), Y(previous) + Unit * Y(d)>>
        IN  /\ walkers'[w].prev = previous
            /\ walkers'[w].moved_from \in {Some(previous), Some(new)}
            /\ walkers'[w].loc = AfterTerrain(previous, new)

\* C18: a candidate move (the first of a step, and every retry after
\* move_back) takes the walker from its position to a neighbouring one and
\* then applies one terrain effect, that of the first of water, sand, grass
\* on which the new position lies: to the origin, to the midpoint of the
\* previous and the new position, to the new position plus twice the step;
\* unchanged on no terrain.  The terrain of the position so reached has no
\* further effect.
C18_OneTerrainEffectPerCandidate ==
    [][(pc = "walker" \/ pc = "while") =>
         (\A w \in Names : w = walker_names[cur] =>
            (/\ ((pc = "walker" /\ pc' = "while") => StepFrom(walkers[w].loc, w))
             /\ ((pc = "while" /\ collision_attempts' = collision_attempts + 1) =>
                    StepFrom(walkers[w].prev, w))))
      ]_vars

\* a candidate landed on sand and was put on the midpoint, which lies on a
\* terrain as well; the walker is left there
C18_Witness ==
    /\ pc = "while"
    /\ collision_attempts = 0
    /\ \E w \in Names :
         /\ w = walker_names[cur]
         /\ walkers[w].moved_from /= None
         /\ OnAny(walkers[w].moved_from[1], sands)
         /\ walkers[w].moved_from[1] /= walkers[w].loc
         /\ walkers[w].loc = AfterTerrain(walkers[w].prev, walkers[w].moved_from[1])
         /\ OnAny(walkers[w].loc, sands) \/ OnAny(walkers[w].loc, waters)
              \/ OnAny(walkers[w].loc, grasses)

\* the steps a walker at position can take: down, up, right, left, and on
\* an axis the step towards the origin (none at the origin)
StepOf(position, k) ==
    CASE k = 1 -> <<0, -Unit>>
      [] k = 2 -> <<0, Unit>>
      [] k = 3 -> <<Unit, 0>>
      [] k = 4 -> <<-Unit, 0>>
      [] k = 5 -> <<-Sign(X(position)) * Unit, -Sign(Y(position)) * Unit>>

Weight(w, k) == walkers[w].bias_probabilities[k][1]

\* C19: a candidate move of a DirectionalBiasWalker is a step in a direction
\* of positive weight (the step towards the origin not being available at
\* the origin); with the weights 1, 0, 0, 0, 0 every move, from the origin
\* or from elsewhere, lowers y by 1 and leaves x as it is.
C19_NoStepOfWeightZero ==
    [][(pc = "walker" \/ pc = "while") =>
         (\A w \in Names : w = walker_names[cur] =>
            LET from == IF pc = "walker" THEN walkers[w].loc ELSE walkers[w].prev
                to == walkers'[w].loc
            IN  ((pc = "walker" /\ pc' = "while")
                   \/ (pc = "while" /\ collision_attempts' = collision_attempts + 1)) =>
                  (/\ \E k \in 1..5 :
                        /\ Weight(w, k) > 0
                        /\ (k = 5 => from /= Origin)
                        /\ to = <<X(from) + X(StepOf(from, k)),
                                  Y(from) + Y(StepOf(from, k))>>
                   /\ (Weight(w, 1) > 0 /\ \A k \in 2..5 : Weight(w, k) = 0) =>
                        (X(to) = X(from) /\ Y(to) = Y(from) - Unit)))
      ]_vars

\* a walker with the weights 1, 0, 0, 0, 0 has moved from (0, 3) to (0, 2)
C19_Witness ==
    /\ pc = "while"
    /\ \E w \in Names :
         /\ "bias_probabilities" \in DOMAIN walkers[w]
         /\ Weight(w, 1) > 0 /\ \A k \in 2..5 : Weight(w, k) = 0
         /\ walkers[w].prev = <<0, 3 * Unit>>
         /\ walkers[w].loc = <<0, 2 * Unit>>

\* C20: the history of a MemoryWalker holds at most 1000 entries at every
\* point of a run, after its own move() and after every update_memory().
C20_MemoryHoldsAtMost1000 ==
    \A w \in Names :
        "memory" \in DOMAIN walkers[w] => Len(walkers[w].memory) <= memory_size

\* what the code keeps: update_memory, called on a history of at most 1000
\* entries, leaves at most 1000, the oldest entry evicted
C20_UpdateMemoryEvictsOldest ==
    \A w \in Names :
        ("memory" \in DOMAIN walkers[w] /\ Len(walkers[w].memory) = memory_size) =>
            update_memory(walkers[w]).memory =
                Append(Tail(walkers[w].memory), walkers[w].loc)

\* the history is full and a step of the walker leads to a position that
\* is not in it: move() appends it and the history holds 1001 entries
C20_Witness ==
    \E w \in Names :
        /\ "memory" \in DOMAIN walkers[w]
        /\ Len(walkers[w].memory) > memory_size

----------------------------------------------------------------------------
(* Claims on the retries, the moves of the walker classes, termination,    *)
(* the order of the walkers, reuse after reset, and the accumulator.       *)

\* the position walker w held when step i began
StepStart(w) == IF i = 1 THEN Origin ELSE total_dict[w][i - 1].locations

\* C21: while the candidate moves of a walker's step are resolved, the
\* position move_back puts the walker back to, which is where the segment of
\* every candidate and of the accepted move begins, is the position the
\* walker held when the step began, under any interaction mode.
C21_RetriesStartAtStepStart ==
    pc = "while" =>
        \A w \in Names : w = walker_names[cur] => walkers[w].prev = StepStart(w)

\* a candidate collides and the position the walker is put back to is not
\* the one it held when the step began
C21_Witness ==
    /\ pc = "while"
    /\ Colliding
    /\ \E w \in Names : w = walker_names[cur] /\ walkers[w].prev /= StepStart(w)

\* what holds without an interaction: the walker's own move sets the
\* previous position to the one held when the step began
C21_RetriesStartAtStepStartAlone ==
    (pc = "while" /\ walkers_interaction = None) =>
        \A w \in Names : w = walker_names[cur] => walkers[w].prev = StepStart(w)

\* the walker went from position from by a step of one of the lengths in
\* lengths along (sign 1) or against (sign -1) the bearing of position to,
\* rounded to a multiple of 90 degrees when snapped is true
SteppedAlongBearing(wk, from, to, sign, snapped, lengths) ==
    LET dx == X(to) - X(from)
        dy == Y(to) - Y(from)
        ex == sign * (X(wk.loc) - X(from))
        ey == sign * (Y(wk.loc) - Y(from))
    IN  /\ \E d \in lengths : ex * ex + ey * ey = d * d
        /\ IF snapped
           THEN \E d \in lengths : <<ex, ey>> = <<d * X(snapped_direction(from, to)),
                                                 d * Y(snapped_direction(from, to))>>
           ELSE IF dx = 0 /\ dy = 0 THEN ey = 0 /\ ex > 0
           ELSE ex * dy - ey * dx = 0 /\ ex * dx + ey * dy > 0

\* the candidate move just made by the walker in turn is its own move, or a
\* step towards (attract) or away from (repel) the walker that was nearest,
\* with the bearing snapped for the walkers that Snapped holds of
BiasedMovesFollowBearing(Snapped(_)) ==
    pc = "while" =>
        \A w \in Names : w = walker_names[cur] =>
            LET wk == walkers[w]
                from == wk.moved_from[1]
                before == [walkers EXCEPT ![w].loc = from]
                to == before[locate_nearest_walker(before, walker_names, w)[1]].loc
            IN  \/ wk.prev = from
                \/ SteppedAlongBearing(wk, from, to,
                       IF walkers_interaction = Some("attract") THEN 1 ELSE -1,
                       Snapped(wk),
                       IF is_RandomDistanceWalker(wk) THEN distances ELSE {Unit})

FreeAngleFamily(wk) == is_UnitWalker(wk) \/ is_RandomDistanceWalker(wk)
GridAligned(wk) == ~ FreeAngleFamily(wk)

\* C22: an interaction-biased move steps along the bearing to the nearest
\* walker (attract) or against it (repel); the bearing is snapped to the
\* nearest multiple of 90 degrees for the grid-aligned walkers and is used
\* as it is for a UnitWalker and a RandomDistanceWalker.
C22_FreeAngleFamilyKeepsBearing == BiasedMovesFollowBearing(GridAligned)

\* what the code does: only a UnitWalker keeps the bearing
C22_OnlyUnitWalkerKeepsBearing == BiasedMovesFollowBearing(snaps)

\* a RandomDistanceWalker whose nearest walker lay off both axes has made a
\* biased move along an axis
C22_Witness ==
    /\ pc = "while"
    /\ \E w \in Names :
          /\ w = walker_names[cur]
          /\ is_RandomDistanceWalker(walkers[w])
          /\ walkers[w].moved_from /= None
          /\ walkers[w].prev /= walkers[w].moved_from[1]
          /\ LET from == walkers[w].moved_from[1]
                 to == walkers["StraightWalker1"].loc
             IN  /\ X(to) /= X(from) /\ Y(to) /= Y(from)
                 /\ Abs(X(to) - X(from)) /= Abs(Y(to) - Y(from))
                 /\ (X(walkers[w].loc) = X(from) \/ Y(walkers[w].loc) = Y(from))

\* C23: whatever its weights, a DirectionalBiasWalker's move() succeeds from
\* every position: the candidate it yields lies at distance exactly 1 from
\* the position before the move, which is the previous position, and from
\* the origin it is a step in one of the four axis directions of weight
\* above zero.
C23_BiasMoveSucceedsEverywhere ==
    /\ pc /= "raised"
    /\ pc = "while" =>
          \A w \in Names : (w = walker_names[cur] /\ is_DirectionalBiasWalker(walkers[w])) =>
              LET wk == walkers[w]
              IN  /\ wk.moved_from = Some(wk.prev)
                  /\ Dist2(wk.loc, wk.prev) = Unit * Unit
                  /\ wk.prev = Origin =>
                        \E k \in 1..4 :
                            /\ wk.bias_probabilities[k][1] > 0
                            /\ wk.loc = relevant_direction(Walker, k)

\* the move of a walker at the origin whose only weight is the one of the
\* direction to the origin has raised ValueError
C23_Witness ==
    /\ pc = "raised"
    /\ \E w \in Names :
          /\ is_DirectionalBiasWalker(walkers[w])
          /\ walkers[w].loc = Origin
          /\ walkers[w].bias_probabilities[5][1] > 0
          /\ \A k \in 1..4 : walkers[w].bias_probabilities[k][1] = 0

\* what holds of the moves that succeed
C23_BiasMoveStepsByOne ==
    pc = "while" =>
        \A w \in Names : (w = walker_names[cur] /\ is_DirectionalBiasWalker(walkers[w])) =>
            LET wk == walkers[w]
            IN  /\ wk.moved_from = Some(wk.prev)
                /\ Dist2(wk.loc, wk.prev) = Unit * Unit

\* the four axis-aligned neighbours of a position
Neighbours(p) == {<<X(p) + Unit * X(d), Y(p) + Unit * Y(d)>> : d \in directions}

\* the position that move() gave the walker in a candidate move: the one it
\* is at, or the one a terrain effect then took it from
MoveTarget(before, after) ==
    IF after.moved_from = Some(before.loc) THEN after.loc ELSE after.moved_from[1]

\* C24: a MemoryWalker's move() goes to one of the four axis-aligned
\* neighbours that is not in its history whenever there is one, and to any
\* of the four neighbours when all are in the history; in both cases the
\* previous position is set to the position before the move.
C24_MemoryWalkerAvoidsHistory ==
    [][ ((pc = "walker" \/ pc = "while") /\ pc' = "while" /\ walkers' /= walkers) =>
          (\A w \in Names :
              (w = walker_names[cur] /\ is_MemoryWalker(walkers[w])
                                     /\ walkers_interaction = None) =>
                  LET before == IF pc = "walker" THEN walkers[w]
                                ELSE move_back(walkers[w])
                      after == walkers'[w]
                      target == MoveTarget(before, after)
                      fresh == {p \in Neighbours(before.loc) : ~ in_memory(before, p)}
                  IN  /\ after.prev = before.loc
                      /\ target \in Neighbours(before.loc)
                      /\ fresh /= {} => target \in fresh) ]_vars

\* a MemoryWalker has stepped, at a retry, to a neighbour that its move()
\* appended to the history, while another neighbour was in the history
C24_Witness ==
    /\ pc = "while"
    /\ collision_attempts > 0
    /\ \E w \in Names :
          /\ w = walker_names[cur]
          /\ is_MemoryWalker(walkers[w])
          /\ LET wk == walkers[w]
                 target == IF wk.moved_from = Some(wk.prev) THEN wk.loc
                           ELSE wk.moved_from[1]
                 n == Len(wk.memory)
             IN  /\ target \in Neighbours(wk.prev)
                 /\ n >= 2 /\ wk.memory[n - 1] = target
                 /\ \E k \in 1..(n - 2) : /\ wk.memory[k] \in Neighbours(wk.prev)
                                          /\ wk.memory[k] /= target

\* all four neighbours were in the history and the walker has stepped to one
\* of them, which its move() did not append
C24_WitnessAllRemembered ==
    /\ pc = "while"
    /\ collision_attempts > 0
    /\ \E w \in Names :
          /\ w = walker_names[cur]
          /\ is_MemoryWalker(walkers[w])
          /\ LET wk == walkers[w]
                 target == IF wk.moved_from = Some(wk.prev) THEN wk.loc
                           ELSE wk.moved_from[1]
                 n == Len(wk.memory)
             IN  /\ target \in Neighbours(wk.prev)
                 /\ n >= 2 /\ wk.memory[n - 1] /= target
                 /\ \A p \in Neighbours(wk.prev) :
                       \E k \in 1..(n - 2) : wk.memory[k] = p

\* C25: every call of run_simulation returns: a run that has started reaches
\* the return of True or of False, whatever is drawn.
C25_RunReturns == (pc = "walker" \/ pc = "while") ~> (pc = "returned")

\* a run has been left by an exception at its first move, with neither True
\* nor False returned
C25_Witness == pc = "raised" /\ i = 1 /\ cur = 1 /\ result = None

\* what holds of every run: it returns or is left by a ValueError
C25_RunReturnsOrRaises ==
    (pc = "walker" \/ pc = "while") ~> (pc = "returned" \/ pc = "raised")

\* the loops are bounded: at most num_moves steps, and at most
\* max_collision_attempts retries for one walker in one step
C25_LoopsAreBounded ==
    /\ i <= num_moves
    /\ collision_attempts <= max_collision_attempts

\* C26: while the walker at index cur of the insertion order is processed in
\* step i, every walker before it has its record of step i written and
\* stands at the position recorded there, and every walker after it, like
\* the walker itself, has no record of step i yet; the walkers after it
\* stand where step i - 1 left them.  So all records of a step are written
\* before the next step begins, and a nearest-walker choice in step i reads
\* the positions of step i of the earlier walkers and those of step i - 1 of
\* the later ones.
C26_WalkersTakeTurnsInOrder ==
    (pc = "walker" \/ pc = "while") =>
        \A k \in 1..Len(walker_names) :
            LET w == walker_names[k]
            IN  /\ \A s \in 1..(i - 1) : s \in Steps(w)
                /\ k < cur => /\ i \in Steps(w)
                              /\ walkers[w].loc = total_dict[w][i].locations
                /\ k >= cur => i \notin Steps(w)
                /\ k > cur => walkers[w].loc = StepStart(w)

\* in the second step, under an interaction, the second walker is in turn
\* when the first has moved on from where the step before left it
C26_Witness ==
    /\ pc = "walker"
    /\ walkers_interaction /= None
    /\ i = 2 /\ cur = 2
    /\ 2 \in Steps(walker_names[1])
    /\ 2 \notin Steps(walker_names[2])
    /\ total_dict[walker_names[1]][2].locations /= total_dict[walker_names[1]][1].locations

\* C27: after reset() the simulation is what a freshly constructed one is:
\* every walker at the origin with the origin as its previous position, not
\* escaped, with an empty memory, and no escape time, crossing count or
\* record left, so that the next run goes as a first run does.
C27_ResetGivesFreshInstance ==
    (pc = "main" /\ run > 1) =>
        \A w \in Names :
            /\ walkers[w].loc = Origin
            /\ walkers[w].prev = Origin
            /\ walkers[w].escaped = FALSE
            /\ is_MemoryWalker(walkers[w]) => walkers[w].memory = <<>>
            /\ escape_times[w] = None
            /\ crosses_y[w] = -1
            /\ total_dict[w] = <<>>

\* in the first step of a second run a walker has made an interaction-biased
\* first move, and the previous position left over from the first run makes
\* the gate check take it elsewhere than it would from the origin
C27_Witness ==
    /\ run = 2 /\ i = 1
    /\ pc = "while"
    /\ collision_attempts = 0
    /\ \E w \in Names :
          /\ w = walker_names[cur]
          /\ walkers[w].moved_from = Some(Origin)
          /\ walkers[w].prev /= Origin
          /\ gate_check(walkers[w], enchanted_gates).loc
                /= gate_check([walkers[w] EXCEPT !.prev = Origin], enchanted_gates).loc

\* what reset() does restore: everything but the previous positions
C27_ResetRestoresAllButPrev ==
    (pc = "main" /\ run > 1) =>
        \A w \in Names :
            /\ walkers[w].loc = Origin
            /\ walkers[w].escaped = FALSE
            /\ is_MemoryWalker(walkers[w]) => walkers[w].memory = <<>>
            /\ escape_times[w] = None
            /\ crosses_y[w] = -1
            /\ total_dict[w] = <<>>

\* C28: no record of a step holds a location inside an obstacle or on its
\* boundary (no gate exit lies in an obstacle: the loader sees to that).
C28_NoRecordInsideObstacle ==
    \A w \in Names : \A s \in Steps(w) : \A k \in 1..Len(obstacles) :
        ~ PointIntersects(total_dict[w][s].locations, obstacles[k])

\* a record was written one step away from a position in an obstacle
C28_Witness ==
    \E w \in Names : \E s \in Steps(w) : \E k \in 1..Len(obstacles) :
        \E p \in Neighbours(total_dict[w][s].locations) :
            PointIntersects(p, obstacles[k])

\* C29: the accumulator is only ever extended.  The export of a run that
\* returned True adds the table of that run under its index to every
\* walker's entry and leaves the tables of the other runs as they are; no
\* other step (a run, a skipped export, reset) changes the accumulator.
C29_StatisticsOnlyGrows ==
    [][ IF pc = "returned" /\ result = Some(TRUE)
        THEN \A w \in Names :
                /\ RunsOf(w)' = RunsOf(w) \cup {run}
                /\ stats'[w][run] = total_dict[w]
                /\ \A r \in RunsOf(w) \ {run} : stats'[w][r] = stats[w][r]
        ELSE stats' = stats ]_vars

\* the second run is being exported or was: the accumulator holds the table
\* of the first run, which differs from the one of the second, beside it
C29_Witness ==
    /\ run = 2
    /\ pc = "reset"
    /\ \E w \in Names :
          /\ RunsOf(w) = {1, 2}
          /\ stats[w][1] /= stats[w][2]
          /\ stats[w][2] = total_dict[w]

\* the cells walker w can have occupied at the end of an accepted transition
\* of a step before step i: the recorded locations, the origin (where a run
\* starts and water leads), and the neighbours of the positions at which
\* those steps began (where an accepted move can have led)
AcceptedBefore(w) ==
    {Origin} \cup {total_dict[w][s].locations : s \in Steps(w)}
             \cup UNION {Neighbours(IF s = 1 THEN Origin
                                    ELSE total_dict[w][s - 1].locations) :
                            s \in 1..(i - 1)}

\* the cells of the candidate move that wk has just made: where it is and,
\* when a terrain effect took it there, where its move had taken it
CandidateCells(wk) ==
    {wk.loc} \cup (IF wk.moved_from = None THEN {} ELSE {wk.moved_from[1]})

\* C30: a candidate move of a MemoryWalker that collides and is reverted
\* leaves no entry in the history: once it is rejected, a cell of it is in
\* the history only if the walker was there at the end of an accepted
\* transition before, or if the next candidate leads there again.
C30_RejectedCandidateLeavesNoEntry ==
    [][ (pc = "while" /\ pc' = "while" /\ collision_attempts' = collision_attempts + 1) =>
          (\A w \in Names : (w = walker_names[cur] /\ is_MemoryWalker(walkers[w])) =>
              \A c \in CandidateCells(walkers[w]) :
                  in_memory(walkers'[w], c) =>
                      c \in AcceptedBefore(w) \cup CandidateCells(walkers'[w])) ]_vars

\* after a retry the history of a MemoryWalker holds a cell that is neither
\* of the candidate at hand nor one the walker can have been accepted at
C30_Witness ==
    /\ pc = "while"
    /\ collision_attempts >= 1
    /\ \E w \in Names :
          /\ w = walker_names[cur]
          /\ is_MemoryWalker(walkers[w])
          /\ \E k \in 1..Len(walkers[w].memory) :
                walkers[w].memory[k] \notin
                    AcceptedBefore(w) \cup CandidateCells(walkers[w])

====
